---- MODULE Spec2Model ----
(***************************************************************************)
(* Model of vulkano's descriptor_set/resources.rs: the table of resources  *)
(* bound to a descriptor set (DescriptorSetResources), its construction    *)
(* from a descriptor set layout, the application of descriptor writes and  *)
(* the binding lookup.                                                     *)
(*                                                                         *)
(* Option<T> is modelled as a sequence of length 0 (None) or 1 (Some(x)).  *)
(* A panic is modelled as a record holding the panic message and the       *)
(* values formatted into it.  A panic unwinds out of the call and leaves   *)
(* the table as the call had made it up to there.                          *)
(*                                                                         *)
(* pc is the position of the owner of the table: "unbuilt" before new(),   *)
(* "returned" when a call has just returned or panicked (op, writes,       *)
(* before, panic, failed_at, binding and found then describe that call),   *)
(* "ready" between calls, "aborted" when new() itself has panicked.        *)
(*                                                                         *)
(* Three specifications share the actions and differ in the inputs:        *)
(*   SpecNew  new() over every layout of two binding indices;              *)
(*   Spec     update() calls of at most one write, and binding();          *)
(*   SpecSeq  update() calls of up to MaxWrites writes.                    *)
(* A layout has two binding indices and a category has two resources.      *)
(***************************************************************************)
EXTENDS Integers, Sequences, FiniteSets, TLC

\* ------------------------------------------------------------------ bounds
\* Largest descriptor_count of a binding.
MaxCount == 3
\* Largest number of elements carried by one descriptor write.
MaxElems == 2
\* Largest variable descriptor count a layout declares.
MaxVar == 1
\* Largest number of writes handed to one multi-write update call.
MaxWrites == 2

\* ------------------------------------------------------- Option<T> helpers
None == <<>>
Some(x) == <<x>>
IsSome(o) == Len(o) = 1
Unwrap(o) == o[1]

\* --------------------------------------------------------------- the types
\* enum DescriptorType (descriptor_set::layout), as matched by new().
DescriptorType ==
    { "UniformBuffer", "StorageBuffer", "UniformBufferDynamic", "StorageBufferDynamic",
      "UniformTexelBuffer", "StorageTexelBuffer",
      "SampledImage", "StorageImage", "InputAttachment",
      "CombinedImageSampler", "Sampler" }

\* The variants of DescriptorWriteElements, as matched by update().
DescriptorWriteElements == { "Buffer", "BufferView", "ImageView", "ImageViewSampler", "Sampler" }

\* The shared handles (Arc<..>) a write of a category can carry: two resources
\* of each category, which the code clones and stores and never looks into.
\* An ImageViewSampler element is a pair (image view, sampler).
Handles(tag) ==
    IF tag = "ImageViewSampler" THEN { <<h, 1>> : h \in {1, 2} } ELSE {1, 2}

\* All sequences over S of a length in lo..hi.
SeqsOf(S, lo, hi) == UNION { [1..n -> S] : n \in lo..hi }

\* smallvec![None; count]
NoneElements(count) == [i \in 1..count |-> None]

\* ----------------------------------------------------------------- panics
NoPanic == [msg |-> "", args |-> <<>>]
AssertPanic ==
    [msg |-> "assertion failed: variable_descriptor_count <= layout.variable_descriptor_count()",
     args |-> <<>>]
InvalidBindingPanic == [msg |-> "descriptor write has invalid binding number", args |-> <<>>]
OutOfBoundsPanic == [msg |-> "descriptor write for binding out of bounds", args |-> <<>>]
WrongTypePanic(binding_num) ==
    [msg |-> "descriptor write for binding {} has wrong resource type", args |-> <<binding_num>>]

\* ------------------------------------------------------------------- state
VARIABLES
    pc,                          \* "unbuilt", "ready", "returned" or "aborted"
    layout,                      \* the layout handed to new()
    variable_descriptor_count,   \* the count handed to new()
    descriptors,                 \* DescriptorSetResources.descriptors
    op,                          \* the call that returned last
    writes,                      \* the writes handed to that update() call
    before,                      \* descriptors when that call was entered
    panic,                       \* the panic that call ended with, or NoPanic
    failed_at,                   \* index of the write it panicked on, or 0
    binding,                     \* the binding number handed to binding()
    found                        \* what binding() returned

vars == <<pc, layout, variable_descriptor_count, descriptors, op, writes, before,
          panic, failed_at, binding, found>>

\* ------------------------------------------------------------ construction
\* Mutant of BindingResources: the immutable samplers of the binding are not
\* looked at.
BindingResources_IgnoreImmutable(binding_desc, count) ==
    LET ty == binding_desc.ty IN
    IF ty \in {"UniformBuffer", "StorageBuffer", "UniformBufferDynamic", "StorageBufferDynamic"}
    THEN [tag |-> "Buffer", resources |-> NoneElements(count)]
    ELSE IF ty \in {"UniformTexelBuffer", "StorageTexelBuffer"}
    THEN [tag |-> "BufferView", resources |-> NoneElements(count)]
    ELSE IF ty \in {"SampledImage", "StorageImage", "InputAttachment"}
    THEN [tag |-> "ImageView", resources |-> NoneElements(count)]
    ELSE IF ty = "CombinedImageSampler"
    THEN [tag |-> "ImageViewSampler", resources |-> NoneElements(count)]
    ELSE [tag |-> "Sampler", resources |-> NoneElements(count)]

\* One DescriptorBindingResources for a binding description (the match on
\* binding_desc.ty in new()).
BindingResources(binding_desc, count) ==
    LET ty == binding_desc.ty IN
    IF ty \in {"UniformBuffer", "StorageBuffer", "UniformBufferDynamic", "StorageBufferDynamic"}
    THEN [tag |-> "Buffer", resources |-> NoneElements(count)]
    ELSE IF ty \in {"UniformTexelBuffer", "StorageTexelBuffer"}
    THEN [tag |-> "BufferView", resources |-> NoneElements(count)]
    ELSE IF ty \in {"SampledImage", "StorageImage", "InputAttachment"}
    THEN [tag |-> "ImageView", resources |-> NoneElements(count)]
    ELSE IF ty = "CombinedImageSampler"
    THEN IF binding_desc.immutable_samplers = <<>>
         THEN [tag |-> "ImageViewSampler", resources |-> NoneElements(count)]
         ELSE [tag |-> "ImageView", resources |-> NoneElements(count)]
    ELSE \* "Sampler"
         IF binding_desc.immutable_samplers = <<>>
         THEN [tag |-> "Sampler", resources |-> NoneElements(count)]
         ELSE [tag |-> "None"]

\* Mutant of BindingCount: the variable_count flag of the binding is not
\* looked at.
BindingCount_IgnoreVariable(binding_desc, v) == binding_desc.descriptor_count

\* The number of elements new() gives the slot of a binding.
BindingCount(binding_desc, v) ==
    IF binding_desc.variable_count THEN v ELSE binding_desc.descriptor_count

\* The map new() collects: one entry per binding the layout defines.
NewDescriptors(L, v) ==
    LET defined == { b \in 0..(Len(L.bindings) - 1) : IsSome(L.bindings[b + 1]) } IN
    [ b \in defined |->
        LET binding_desc == Unwrap(L.bindings[b + 1]) IN
        BindingResources(binding_desc, BindingCount(binding_desc, v)) ]

\* ----------------------------------------------------------------- writes
\* Mutant of write_resources: the bounds check is strict, so a write that ends
\* exactly at the end of the slot is refused.
write_resources_StrictBound(first, resources, elements) ==
    IF first + Len(elements) < Len(resources)
    THEN [panic |-> NoPanic,
          resources |-> [ i \in 1..Len(resources) |->
                            IF first < i /\ i <= first + Len(elements)
                            THEN Some(elements[i - first])
                            ELSE resources[i] ]]
    ELSE [panic |-> OutOfBoundsPanic, resources |-> resources]

\* Mutant of write_resources: the elements are stored from position 0 on, not
\* from first on.
write_resources_FromZero(first, resources, elements) ==
    IF first + Len(elements) <= Len(resources)
    THEN [panic |-> NoPanic,
          resources |-> [ i \in 1..Len(resources) |->
                            IF i <= Len(elements) THEN Some(elements[i]) ELSE resources[i] ]]
    ELSE [panic |-> OutOfBoundsPanic, resources |-> resources]

\* Mutant of write_resources: an element that is already set is kept.
write_resources_KeepSet(first, resources, elements) ==
    IF first + Len(elements) <= Len(resources)
    THEN [panic |-> NoPanic,
          resources |-> [ i \in 1..Len(resources) |->
                            IF first < i /\ i <= first + Len(elements) /\ resources[i] = None
                            THEN Some(elements[i - first])
                            ELSE resources[i] ]]
    ELSE [panic |-> OutOfBoundsPanic, resources |-> resources]

\* Mutant of write_resources: a write that ends past the slot grows the list
\* instead of panicking.
write_resources_Growing(first, resources, elements) ==
    LET n == IF first + Len(elements) <= Len(resources)
             THEN Len(resources) ELSE first + Len(elements) IN
    [panic |-> NoPanic,
     resources |-> [ i \in 1..n |->
                       IF first < i /\ i <= first + Len(elements)
                       THEN Some(elements[i - first])
                       ELSE IF i <= Len(resources) THEN resources[i] ELSE None ]]

\* Mutant of write_resources: the slot is reset to unset elements before the
\* range is written.
write_resources_ClearFirst(first, resources, elements) ==
    IF first + Len(elements) <= Len(resources)
    THEN [panic |-> NoPanic,
          resources |-> [ i \in 1..Len(resources) |->
                            IF first < i /\ i <= first + Len(elements)
                            THEN Some(elements[i - first])
                            ELSE None ]]
    ELSE [panic |-> OutOfBoundsPanic, resources |-> resources]

\* Mutant of write_resources: first has to be the position of an element
\* (resources[first..] indexed before the range is taken), so a write of no
\* element at the end of the slot is refused.
write_resources_EmptyNeedsRoom(first, resources, elements) ==
    IF first < Len(resources) /\ first + Len(elements) <= Len(resources)
    THEN [panic |-> NoPanic,
          resources |-> [ i \in 1..Len(resources) |->
                            IF first < i /\ i <= first + Len(elements)
                            THEN Some(elements[i - first])
                            ELSE resources[i] ]]
    ELSE [panic |-> OutOfBoundsPanic, resources |-> resources]

\* Mutant of write_resources: the elements after the written range are unset
\* (the write truncates what the slot holds).
write_resources_Truncate(first, resources, elements) ==
    IF first + Len(elements) <= Len(resources)
    THEN [panic |-> NoPanic,
          resources |-> [ i \in 1..Len(resources) |->
                            IF first < i /\ i <= first + Len(elements)
                            THEN Some(elements[i - first])
                            ELSE IF i <= first THEN resources[i] ELSE None ]]
    ELSE [panic |-> OutOfBoundsPanic, resources |-> resources]

\* fn write_resources(first, resources, elements): the range
\* first..first+elements.len() is taken out of resources (get_mut: None when
\* it ends past the slice), then every element of it is overwritten.  first
\* is a u32 widened to usize: the sum stays far below the 64-bit usize range.
write_resources(first, resources, elements) ==
    IF first + Len(elements) <= Len(resources)
    THEN [panic |-> NoPanic,
          resources |-> [ i \in 1..Len(resources) |->
                            IF first < i /\ i <= first + Len(elements)
                            THEN Some(elements[i - first])
                            ELSE resources[i] ]]
    ELSE [panic |-> OutOfBoundsPanic, resources |-> resources]

\* Mutant of BindingResourcesUpdate: the category of the write is not matched
\* against the variant of the slot.
BindingResourcesUpdate_AnyKind(self, write) ==
    LET first == write.first_array_element IN
    IF self.tag # "None"
    THEN LET r == write_resources(first, self.resources, write.elements.elems) IN
         [self |-> [self EXCEPT !.resources = r.resources], panic |-> r.panic]
    ELSE [self |-> self, panic |-> WrongTypePanic(write.binding_num)]

\* Mutant of BindingResourcesUpdate: the range is checked before the variant,
\* so a write that fails both checks panics with the out-of-bounds message.
BindingResourcesUpdate_BoundsFirst(self, write) ==
    LET first == write.first_array_element IN
    IF self.tag # "None" /\ first + Len(write.elements.elems) > Len(self.resources)
    THEN [self |-> self, panic |-> OutOfBoundsPanic]
    ELSE IF self.tag # "None" /\ self.tag = write.elements.tag
    THEN LET r == write_resources(first, self.resources, write.elements.elems) IN
         [self |-> [self EXCEPT !.resources = r.resources], panic |-> r.panic]
    ELSE [self |-> self, panic |-> WrongTypePanic(write.binding_num)]

\* Mutant of BindingResourcesUpdate: a write of another category turns the slot
\* into an unset slot of that category before the panic.
BindingResourcesUpdate_Retag(self, write) ==
    LET first == write.first_array_element IN
    IF self.tag # "None" /\ self.tag = write.elements.tag
    THEN LET r == write_resources(first, self.resources, write.elements.elems) IN
         [self |-> [self EXCEPT !.resources = r.resources], panic |-> r.panic]
    ELSE [self |-> IF self.tag = "None" THEN self
                   ELSE [tag |-> write.elements.tag,
                         resources |-> NoneElements(Len(self.resources))],
          panic |-> WrongTypePanic(write.binding_num)]

\* DescriptorBindingResources::update(&mut self, write): the match on
\* (self, write.elements()).  Yields the slot afterwards and the panic.
BindingResourcesUpdate(self, write) ==
    LET first == write.first_array_element IN
    IF self.tag # "None" /\ self.tag = write.elements.tag
    THEN LET r == write_resources(first, self.resources, write.elements.elems) IN
         [self |-> [self EXCEPT !.resources = r.resources], panic |-> r.panic]
    ELSE [self |-> self, panic |-> WrongTypePanic(write.binding_num)]

\* DescriptorSetResources::update(&mut self, writes): the for loop, from the
\* i-th write on.  It ends at the first write that panics.
RECURSIVE UpdateFrom(_, _, _)
UpdateFrom(table, ws, i) ==
    IF i > Len(ws)
    THEN [descriptors |-> table, panic |-> NoPanic, failed_at |-> 0]
    ELSE LET write == ws[i] IN
         IF write.binding_num \notin DOMAIN table
         THEN [descriptors |-> table, panic |-> InvalidBindingPanic, failed_at |-> i]
         ELSE LET r == BindingResourcesUpdate(table[write.binding_num], write) IN
              IF r.panic # NoPanic
              THEN [descriptors |-> [table EXCEPT ![write.binding_num] = r.self],
                    panic |-> r.panic, failed_at |-> i]
              ELSE UpdateFrom([table EXCEPT ![write.binding_num] = r.self], ws, i + 1)

\* Mutant of SetResourcesUpdate: a write to a binding the table does not hold
\* inserts a slot for it (entry().or_insert) instead of panicking.
RECURSIVE UpdateFrom_Inserting(_, _, _)
UpdateFrom_Inserting(table, ws, i) ==
    IF i > Len(ws)
    THEN [descriptors |-> table, panic |-> NoPanic, failed_at |-> 0]
    ELSE LET write == ws[i]
             slot == IF write.binding_num \in DOMAIN table
                     THEN table[write.binding_num]
                     ELSE [tag |-> write.elements.tag,
                           resources |-> NoneElements(write.first_array_element
                                                      + Len(write.elements.elems))]
             r == BindingResourcesUpdate(slot, write)
             next == [ b \in DOMAIN table \cup {write.binding_num} |->
                         IF b = write.binding_num THEN r.self ELSE table[b] ] IN
         IF r.panic # NoPanic
         THEN [descriptors |-> next, panic |-> r.panic, failed_at |-> i]
         ELSE UpdateFrom_Inserting(next, ws, i + 1)
SetResourcesUpdate_Inserting(table, ws) == UpdateFrom_Inserting(table, ws, 1)

\* Mutant of SetResourcesUpdate: a write to a binding the table does not hold
\* is passed over (if let Some(..) = get_mut(..)) instead of panicking.
RECURSIVE UpdateFrom_SkipUnknown(_, _, _)
UpdateFrom_SkipUnknown(table, ws, i) ==
    IF i > Len(ws)
    THEN [descriptors |-> table, panic |-> NoPanic, failed_at |-> 0]
    ELSE LET write == ws[i] IN
         IF write.binding_num \notin DOMAIN table
         THEN UpdateFrom_SkipUnknown(table, ws, i + 1)
         ELSE LET r == BindingResourcesUpdate(table[write.binding_num], write) IN
              IF r.panic # NoPanic
              THEN [descriptors |-> [table EXCEPT ![write.binding_num] = r.self],
                    panic |-> r.panic, failed_at |-> i]
              ELSE UpdateFrom_SkipUnknown([table EXCEPT ![write.binding_num] = r.self],
                                          ws, i + 1)
SetResourcesUpdate_SkipUnknown(table, ws) == UpdateFrom_SkipUnknown(table, ws, 1)

\* Mutant of SetResourcesUpdate: a write that its binding accepts is applied to
\* every slot of the table that accepts it, not only to the slot of its binding.
RECURSIVE UpdateFrom_AllSlots(_, _, _)
UpdateFrom_AllSlots(table, ws, i) ==
    IF i > Len(ws)
    THEN [descriptors |-> table, panic |-> NoPanic, failed_at |-> 0]
    ELSE LET write == ws[i] IN
         IF write.binding_num \notin DOMAIN table
         THEN [descriptors |-> table, panic |-> InvalidBindingPanic, failed_at |-> i]
         ELSE LET r == BindingResourcesUpdate(table[write.binding_num], write) IN
              IF r.panic # NoPanic
              THEN [descriptors |-> table, panic |-> r.panic, failed_at |-> i]
              ELSE UpdateFrom_AllSlots(
                       [b \in DOMAIN table |->
                           LET q == BindingResourcesUpdate(table[b], write) IN
                           IF q.panic = NoPanic THEN q.self ELSE table[b]],
                       ws, i + 1)
SetResourcesUpdate_AllSlots(table, ws) == UpdateFrom_AllSlots(table, ws, 1)

\* Mutant of SetResourcesUpdate: when a write panics, the writes before it are
\* rolled back.
SetResourcesUpdate_AllOrNothing(table, ws) ==
    LET r == UpdateFrom(table, ws, 1) IN
    IF r.panic # NoPanic THEN [r EXCEPT !.descriptors = table] ELSE r

SetResourcesUpdate(table, ws) == UpdateFrom(table, ws, 1)

\* ----------------------------------------------------------------- actions
NoTable == <<>>
NoLayout == [bindings |-> <<>>, variable_descriptor_count |-> 0]

Init ==
    /\ pc = "unbuilt"
    /\ layout = NoLayout
    /\ variable_descriptor_count = 0
    /\ descriptors = NoTable
    /\ op = "none"
    /\ writes = <<>>
    /\ before = NoTable
    /\ panic = NoPanic
    /\ failed_at = 0
    /\ binding = 0
    /\ found = None

\* Mutant of DescriptorSetResources_new: the assertion is strict
\* (variable_descriptor_count < layout.variable_descriptor_count()).
DescriptorSetResources_new_Strict(L, v) ==
    /\ pc = "unbuilt"
    /\ layout' = L
    /\ variable_descriptor_count' = v
    /\ op' = "new"
    /\ IF v < L.variable_descriptor_count
       THEN /\ descriptors' = NewDescriptors(L, v)
            /\ panic' = NoPanic
            /\ pc' = "returned"
       ELSE /\ descriptors' = descriptors
            /\ panic' = AssertPanic
            /\ pc' = "aborted"
    /\ UNCHANGED <<writes, before, failed_at, binding, found>>

\* DescriptorSetResources::new(layout, variable_descriptor_count)
DescriptorSetResources_new(L, v) ==
    /\ pc = "unbuilt"
    /\ layout' = L
    /\ variable_descriptor_count' = v
    /\ op' = "new"
    /\ IF v <= L.variable_descriptor_count
       THEN /\ descriptors' = NewDescriptors(L, v)
            /\ panic' = NoPanic
            /\ pc' = "returned"
       ELSE /\ descriptors' = descriptors
            /\ panic' = AssertPanic
            /\ pc' = "aborted"
    /\ UNCHANGED <<writes, before, failed_at, binding, found>>

\* DescriptorSetResources::update(&mut self, writes), the whole call.
DescriptorSetResources_update(ws) ==
    /\ pc = "ready"
    /\ LET r == SetResourcesUpdate(descriptors, ws) IN
        /\ descriptors' = r.descriptors
        /\ panic' = r.panic
        /\ failed_at' = r.failed_at
    /\ op' = "update"
    /\ writes' = ws
    /\ before' = descriptors
    /\ pc' = "returned"
    /\ UNCHANGED <<layout, variable_descriptor_count, binding, found>>

\* Mutant of DescriptorSetResources_binding: the lookup of a binding the table
\* does not hold inserts a slot for it (entry(binding).or_insert(None)).
DescriptorSetResources_binding_Inserting(b) ==
    /\ pc = "ready"
    /\ op' = "binding"
    /\ binding' = b
    /\ descriptors' = [k \in DOMAIN descriptors \cup {b} |->
                          IF k \in DOMAIN descriptors THEN descriptors[k]
                          ELSE [tag |-> "None"]]
    /\ found' = Some(descriptors'[b])
    /\ before' = descriptors
    /\ pc' = "returned"
    /\ UNCHANGED <<layout, variable_descriptor_count, writes, panic, failed_at>>

\* DescriptorSetResources::binding(&self, binding)
DescriptorSetResources_binding(b) ==
    /\ pc = "ready"
    /\ op' = "binding"
    /\ binding' = b
    /\ found' = IF b \in DOMAIN descriptors THEN Some(descriptors[b]) ELSE None
    /\ before' = descriptors
    /\ pc' = "returned"
    /\ UNCHANGED <<layout, variable_descriptor_count, descriptors, writes, panic, failed_at>>

\* Control is back at the owner of the table, after the return of the call or
\* after its panic has unwound out of it: the arguments and the result of the
\* call are gone, the table is as the call left it.
Return ==
    /\ pc = "returned"
    /\ pc' = "ready"
    /\ op' = "none"
    /\ writes' = <<>>
    /\ before' = NoTable
    /\ panic' = NoPanic
    /\ failed_at' = 0
    /\ binding' = 0
    /\ found' = None
    /\ UNCHANGED <<layout, variable_descriptor_count, descriptors>>

\* ------------------------------------------------------- bounded inputs
\* A DescriptorDesc of a layout binding.
Desc(ty, descriptor_count, variable_count, immutable_samplers) ==
    [ty |-> ty, descriptor_count |-> descriptor_count,
     variable_count |-> variable_count, immutable_samplers |-> immutable_samplers]

\* The immutable sampler lists tried: none, or one sampler.
ImmutableSamplers == { <<>>, <<1>> }

\* Every description of a binding, over every descriptor type.
AllDescs ==
    { Desc(ty, n, vc, imm) : ty \in DescriptorType, n \in 0..MaxCount,
                             vc \in BOOLEAN, imm \in ImmutableSamplers }

\* Every layout of two binding indices, each defined or not.
AllLayouts ==
    { [bindings |-> <<b0, b1>>, variable_descriptor_count |-> m] :
        b0 \in {None} \cup { Some(d) : d \in AllDescs },
        b1 \in {None} \cup { Some(d) : d \in AllDescs },
        m \in 0..MaxVar }

\* One descriptor type for each slot variant new() can build (with immutable
\* samplers a combined image sampler gives the ImageView variant, a sampler
\* the None variant); immutable samplers only where new() looks at them.
ArmTypes == { "StorageBuffer", "UniformTexelBuffer", "CombinedImageSampler", "Sampler" }
ArmDescs ==
    { Desc(ty, n, FALSE, imm) : ty \in ArmTypes, n \in 0..MaxCount, imm \in ImmutableSamplers }
    \ { d \in [ty : ArmTypes, descriptor_count : 0..MaxCount, variable_count : {FALSE},
               immutable_samplers : {<<1>>}] : d.ty \notin {"CombinedImageSampler", "Sampler"} }

\* Layouts for the update calls: binding 0 is absent or of any arm and any
\* fixed count, the last binding is absent or a variable-count buffer binding
\* of at most one element.
VarDesc == Desc("StorageBuffer", 1, TRUE, <<>>)
UpdateLayouts ==
    { [bindings |-> <<b0, b1>>,
       variable_descriptor_count |-> IF b1 = None THEN 0 ELSE VarDesc.descriptor_count] :
        b0 \in {None} \cup { Some(d) : d \in ArmDescs },
        b1 \in {None, Some(VarDesc)} }

\* A DescriptorWrite: binding_num, first_array_element(), elements().
Write(binding_num, first, tag, elems) ==
    [binding_num |-> binding_num, first_array_element |-> first,
     elements |-> [tag |-> tag, elems |-> elems]]

\* The writes to the bindings bs that start at an offset in firsts and carry
\* lo..hi elements of a category in tags.
WritesOver(bs, firsts, tags, lo, hi) ==
    UNION { { Write(b, f, tag, es) : b \in bs, f \in firsts, es \in SeqsOf(Handles(tag), lo, hi) }
            : tag \in tags }

\* Every write: the binding numbers of the layout and one past them, any
\* category.
Writes == WritesOver(0..2, 0..MaxCount, DescriptorWriteElements, 0, MaxElems)

\* ------------------------------------------------------ the specifications
New ==
    /\ pc = "unbuilt"
    /\ \E L \in UpdateLayouts : \E v \in 0..(L.variable_descriptor_count + 1) :
          DescriptorSetResources_new(L, v)
Update ==
    /\ pc = "ready"
    /\ \E ws \in SeqsOf(Writes, 0, 1) : DescriptorSetResources_update(ws)
Binding ==
    /\ pc = "ready"
    /\ \E b \in 0..2 : DescriptorSetResources_binding(b)

Next == New \/ Update \/ Binding \/ Return
Spec == Init /\ [][Next]_vars

\* Construction alone, over every layout.
NewAny ==
    /\ pc = "unbuilt"
    /\ \E L \in AllLayouts : \E v \in 0..(L.variable_descriptor_count + 1) :
          DescriptorSetResources_new(L, v)
NextNew == NewAny \/ Return
SpecNew == Init /\ [][NextNew]_vars

\* Multi-write update() calls: a buffer binding of MaxCount elements and,
\* absent or not, a sampler binding of one element.
SeqLayouts ==
    { [bindings |-> <<Some(Desc("StorageBuffer", MaxCount, FALSE, <<>>)), b1>>,
       variable_descriptor_count |-> 0] :
        b1 \in {None, Some(Desc("Sampler", 1, FALSE, <<>>))} }
SeqWrites == WritesOver(0..1, 0..MaxCount, {"Buffer", "Sampler"}, 1, MaxElems)

NewSeq ==
    /\ pc = "unbuilt"
    /\ \E L \in SeqLayouts : DescriptorSetResources_new(L, 0)
UpdateSeq ==
    /\ pc = "ready"
    /\ \E ws \in SeqsOf(SeqWrites, 0, MaxWrites) : DescriptorSetResources_update(ws)
NextSeq == NewSeq \/ UpdateSeq \/ Binding \/ Return
SpecSeq == Init /\ [][NextSeq]_vars

\* ------------------------------------------------- vocabulary of the claims
\* A single-write update() call has just returned or panicked.
OneWriteCall == pc = "returned" /\ op = "update" /\ Len(writes) = 1
\* Its write, the slot that write names, and the range it covers.
TheWrite == writes[1]
Offset(w) == w.first_array_element
Count(w) == Len(w.elements.elems)
Known(table, w) == w.binding_num \in DOMAIN table
\* The number of elements a slot holds (the None variant holds no list).
ElementCount(slot) == IF slot.tag = "None" THEN 0 ELSE Len(slot.resources)
\* The element of a slot at the 0-based position p.
ElementAt(slot, p) == slot.resources[p + 1]
\* The write's category is the slot's variant.
KindMatches(table, w) == table[w.binding_num].tag = w.elements.tag
\* Some element of the slot is set.
SomeSet(slot) == slot.tag # "None" /\ \E i \in 1..Len(slot.resources) : IsSome(slot.resources[i])

\* C1: a write whose category matches the slot's variant succeeds exactly when
\* offset + count <= the slot's element count; when offset + count exceeds it,
\* the call panics with the out-of-bounds message and the slot is as before.
C1_BoundsCheck ==
    (OneWriteCall /\ Known(before, TheWrite) /\ KindMatches(before, TheWrite)) =>
        LET slot == before[TheWrite.binding_num]
            end == Offset(TheWrite) + Count(TheWrite) IN
        /\ (panic = NoPanic) <=> (end <= ElementCount(slot))
        /\ end > ElementCount(slot) =>
              /\ panic = OutOfBoundsPanic
              /\ failed_at = 1
              /\ descriptors[TheWrite.binding_num] = slot

\* C1 witness: a matching write one element past the end of a slot that holds a
\* set element has panicked.
C1_Witness ==
    /\ OneWriteCall /\ Known(before, TheWrite) /\ KindMatches(before, TheWrite)
    /\ Offset(TheWrite) + Count(TheWrite) = ElementCount(before[TheWrite.binding_num]) + 1
    /\ Count(TheWrite) > 0
    /\ SomeSet(before[TheWrite.binding_num])
    /\ panic = OutOfBoundsPanic

\* C2: a write whose category differs from the slot's variant panics with the
\* wrong-resource-type message, whatever its offset and count, and the slot is
\* as before.
C2_KindMismatch ==
    (OneWriteCall /\ Known(before, TheWrite) /\ ~KindMatches(before, TheWrite)) =>
        /\ panic = WrongTypePanic(TheWrite.binding_num)
        /\ failed_at = 1
        /\ descriptors[TheWrite.binding_num] = before[TheWrite.binding_num]

\* C2 witness: an in-range Sampler write to a Buffer slot that holds a set
\* element has panicked.
C2_Witness ==
    /\ OneWriteCall /\ Known(before, TheWrite)
    /\ before[TheWrite.binding_num].tag = "Buffer"
    /\ TheWrite.elements.tag = "Sampler"
    /\ Count(TheWrite) > 0
    /\ Offset(TheWrite) + Count(TheWrite) <= ElementCount(before[TheWrite.binding_num])
    /\ SomeSet(before[TheWrite.binding_num])
    /\ panic # NoPanic

\* C3: after a successful write of count values at offset, every position in
\* [offset, offset+count) holds the value at position - offset of the write,
\* and every other position holds what it held before.
C3_RangeWritten ==
    (OneWriteCall /\ panic = NoPanic) =>
        LET w == TheWrite
            old == before[w.binding_num]
            new == descriptors[w.binding_num] IN
        /\ ElementCount(new) = ElementCount(old)
        /\ \A p \in 0..(ElementCount(old) - 1) :
              IF Offset(w) <= p /\ p < Offset(w) + Count(w)
              THEN ElementAt(new, p) = Some(w.elements.elems[p - Offset(w) + 1])
              ELSE ElementAt(new, p) = ElementAt(old, p)

\* C3 witness: one value written at offset 1 of a slot of three elements whose
\* position 0 was set and whose position 2 was unset.
C3_Witness ==
    /\ OneWriteCall /\ panic = NoPanic
    /\ Offset(TheWrite) = 1 /\ Count(TheWrite) = 1
    /\ ElementCount(before[TheWrite.binding_num]) = 3
    /\ IsSome(ElementAt(before[TheWrite.binding_num], 0))
    /\ ~IsSome(ElementAt(before[TheWrite.binding_num], 2))
    /\ ElementAt(before[TheWrite.binding_num], 1) # ElementAt(descriptors[TheWrite.binding_num], 1)

\* The table exists: new() has returned.
Built == pc \in {"ready", "returned"}
\* The bindings a layout defines, and the description of one of them.
Defined(L) == { b \in 0..(Len(L.bindings) - 1) : L.bindings[b + 1] # None }
DescOf(L, b) == L.bindings[b + 1][1]
HasImmutableSamplers(d) == d.immutable_samplers # <<>>
\* The element count the layout computes for a binding.
LayoutCount(d, v) == IF d.variable_count THEN v ELSE d.descriptor_count

\* C8: a combined-image-sampler binding with immutable samplers refuses every
\* ImageViewSampler write and accepts the ImageView writes that are in bounds;
\* a sampler binding with immutable samplers refuses every write, the empty
\* one included; a refused write leaves the slot as it was.
C8_ImmutableSamplerSlots ==
    (OneWriteCall /\ TheWrite.binding_num \in Defined(layout)) =>
        LET w == TheWrite
            b == w.binding_num
            d == DescOf(layout, b)
            refused == /\ panic = WrongTypePanic(b)
                       /\ descriptors[b] = before[b] IN
        /\ (d.ty = "CombinedImageSampler" /\ HasImmutableSamplers(d)) =>
              /\ w.elements.tag = "ImageViewSampler" => refused
              /\ (/\ w.elements.tag = "ImageView"
                  /\ Offset(w) + Count(w) <= LayoutCount(d, variable_descriptor_count))
                     => panic = NoPanic
        /\ (d.ty = "Sampler" /\ HasImmutableSamplers(d)) => refused

\* C8 witness: an empty Sampler write at offset 0 to a sampler binding with
\* immutable samplers has panicked.
C8_Witness ==
    /\ OneWriteCall /\ TheWrite.binding_num \in Defined(layout)
    /\ DescOf(layout, TheWrite.binding_num).ty = "Sampler"
    /\ HasImmutableSamplers(DescOf(layout, TheWrite.binding_num))
    /\ TheWrite.elements.tag = "Sampler"
    /\ Count(TheWrite) = 0 /\ Offset(TheWrite) = 0
    /\ panic = WrongTypePanic(TheWrite.binding_num)

\* C9: once the table is built, its key set is the set of bindings the layout
\* defines, after any update() call, failed or not, and any binding() call.
C9_KeySetFixed == Built => DOMAIN descriptors = Defined(layout)

\* C9 witness: a write to a binding the layout leaves undefined, below a
\* defined one, has panicked.
C9_Witness ==
    /\ OneWriteCall
    /\ Defined(layout) = {1}
    /\ TheWrite.binding_num = 0
    /\ panic = InvalidBindingPanic

\* C10: every slot keeps the variant and the element count new() gave it.
C10_ShapeFixed ==
    Built =>
        \A b \in DOMAIN descriptors :
            LET made == NewDescriptors(layout, variable_descriptor_count)[b] IN
            /\ descriptors[b].tag = made.tag
            /\ ElementCount(descriptors[b]) = ElementCount(made)

\* C10 witness: a write has changed a slot of three elements, and the table had
\* been written before it.
C10_Witness ==
    /\ OneWriteCall /\ panic = NoPanic
    /\ descriptors # before
    /\ ElementCount(descriptors[TheWrite.binding_num]) = 3
    /\ SomeSet(before[TheWrite.binding_num])

\* An update() call has just returned or panicked.
UpdateCall == pc = "returned" /\ op = "update"
\* The write is one update() refuses on a table of this shape: it names a
\* binding the table does not hold, or a category that is not the slot's
\* variant, or a range that ends past the slot.
Rejects(table, w) ==
    \/ ~Known(table, w)
    \/ ~KindMatches(table, w)
    \/ Offset(w) + Count(w) > ElementCount(table[w.binding_num])
\* The write covers position p of binding b.
Covers(w, b, p) == w.binding_num = b /\ Offset(w) <= p /\ p < Offset(w) + Count(w)
\* The value the write stores at position p.
ValueAt(w, p) == Some(w.elements.elems[p - Offset(w) + 1])
\* The index of the last write of ws that covers position p of binding b, or 0.
LastCovering(ws, b, p) ==
    LET S == { j \in 1..Len(ws) : Covers(ws[j], b, p) } IN
    IF S = {} THEN 0 ELSE CHOOSE j \in S : \A k \in S : k <= j
\* after is what the table was with the writes ws applied in order: each
\* position holds the value of the last write that covers it, or what it held.
AppliedInOrder(after, table, ws) ==
    /\ DOMAIN after = DOMAIN table
    /\ \A b \in DOMAIN table :
          /\ after[b].tag = table[b].tag
          /\ ElementCount(after[b]) = ElementCount(table[b])
          /\ \A p \in 0..(ElementCount(table[b]) - 1) :
                LET j == LastCovering(ws, b, p) IN
                ElementAt(after[b], p) =
                    IF j = 0 THEN ElementAt(table[b], p) ELSE ValueAt(ws[j], p)
\* The index of the first write of ws the table refuses, or 0.
FirstRejected(table, ws) ==
    LET S == { j \in 1..Len(ws) : Rejects(table, ws[j]) } IN
    IF S = {} THEN 0 ELSE CHOOSE j \in S : \A k \in S : j <= k

\* C4: when the k-th write of an update() call is the first that fails, the
\* call panics on it and leaves the table as the first k-1 writes, applied in
\* order, made it: the failing write and the writes after it change nothing.
C4_PrefixApplied ==
    (UpdateCall /\ FirstRejected(before, writes) # 0) =>
        LET k == FirstRejected(before, writes) IN
        /\ panic # NoPanic
        /\ failed_at = k
        /\ AppliedInOrder(descriptors, before, SubSeq(writes, 1, k - 1))

\* C4 witness: the second of two writes has failed after the first changed
\* the table.
C4_Witness ==
    /\ UpdateCall /\ Len(writes) = 2
    /\ FirstRejected(before, writes) = 2
    /\ panic # NoPanic
    /\ descriptors # before

\* The ranges of two writes to one binding share a position.
Overlap(a, b) ==
    /\ a.binding_num = b.binding_num
    /\ \E p \in 0..(MaxCount + MaxElems) : Covers(a, a.binding_num, p) /\ Covers(b, a.binding_num, p)
\* after holds b's values on b's range, a's values on the rest of a's range,
\* and what table held everywhere else.
LastWriteWins(after, table, a, b) ==
    LET n == a.binding_num IN
    \A p \in 0..(ElementCount(table[n]) - 1) :
        ElementAt(after[n], p) =
            IF Covers(b, n, p) THEN ValueAt(b, p)
            ELSE IF Covers(a, n, p) THEN ValueAt(a, p)
            ELSE ElementAt(table[n], p)

\* C5: two valid writes A then B to one binding with overlapping ranges leave
\* B's values on B's range, A's values on the rest of A's range and the prior
\* contents elsewhere, whether they come in one update() call or in two.
C5_LastWriteWins ==
    /\ (UpdateCall /\ Len(writes) = 2 /\ FirstRejected(before, writes) = 0
            /\ Overlap(writes[1], writes[2]))
          => /\ panic = NoPanic
             /\ LastWriteWins(descriptors, before, writes[1], writes[2])
    /\ (OneWriteCall /\ ~Rejects(before, TheWrite))
          => \A B \in SeqWrites :
                (~Rejects(descriptors, B) /\ Overlap(TheWrite, B)) =>
                    LET r == SetResourcesUpdate(descriptors, <<B>>) IN
                    /\ r.panic = NoPanic
                    /\ LastWriteWins(r.descriptors, before, TheWrite, B)

\* C5 witness: in one call, A has written positions 0 and 1 and B has then
\* written another value to position 1; position 2 holds the value it held.
C5_Witness ==
    /\ UpdateCall /\ Len(writes) = 2 /\ panic = NoPanic
    /\ writes[1].binding_num = 0 /\ writes[2].binding_num = 0
    /\ Offset(writes[1]) = 0 /\ Count(writes[1]) = 2
    /\ Offset(writes[2]) = 1 /\ Count(writes[2]) = 1
    /\ ValueAt(writes[1], 1) # ValueAt(writes[2], 1)
    /\ ElementAt(descriptors[0], 0) = ValueAt(writes[1], 0)
    /\ ElementAt(descriptors[0], 1) = ValueAt(writes[2], 1)
    /\ IsSome(ElementAt(before[0], 2))
    /\ ElementAt(descriptors[0], 2) = ElementAt(before[0], 2)

\* new() has just returned a table.
NewReturned == pc = "returned" /\ op = "new"
\* Every element of the slot is unset.
AllUnset(slot) ==
    slot.tag # "None" => \A i \in 1..Len(slot.resources) : slot.resources[i] = None

\* C6 as stated: new(L, v) with v within L's maximum yields a table whose keys
\* are the bindings L defines, whose slot for each binding has v elements if
\* the binding is variable-count and descriptor_count elements otherwise, all
\* of them unset.
C6_Original ==
    NewReturned =>
        /\ variable_descriptor_count <= layout.variable_descriptor_count
        /\ DOMAIN descriptors = Defined(layout)
        /\ \A b \in DOMAIN descriptors :
              /\ ElementCount(descriptors[b])
                    = LayoutCount(DescOf(layout, b), variable_descriptor_count)
              /\ AllUnset(descriptors[b])

\* C6 amended: the same, with the element count stated for the slots that are
\* not of the None variant; a None slot holds no elements.
C6_ConstructedTable ==
    NewReturned =>
        /\ variable_descriptor_count <= layout.variable_descriptor_count
        /\ DOMAIN descriptors = Defined(layout)
        /\ \A b \in DOMAIN descriptors :
              /\ descriptors[b].tag # "None" =>
                    ElementCount(descriptors[b])
                        = LayoutCount(DescOf(layout, b), variable_descriptor_count)
              /\ descriptors[b].tag = "None" => DOMAIN descriptors[b] = {"tag"}
              /\ AllUnset(descriptors[b])

\* C6 witness: new() has built a None slot for a binding of a descriptor_count
\* above 0, next to a variable-count binding whose descriptor_count is not the
\* variable count it was given.
C6_Witness ==
    /\ NewReturned
    /\ Defined(layout) = {0, 1}
    /\ descriptors[0].tag = "None"
    /\ DescOf(layout, 0).descriptor_count > 0 /\ ~DescOf(layout, 0).variable_count
    /\ DescOf(layout, 1).variable_count
    /\ variable_descriptor_count = 1
    /\ DescOf(layout, 1).descriptor_count = 3
    /\ ElementCount(descriptors[1]) = 1

\* The slot variant C7 states for a binding description.
StatedVariant(d) ==
    CASE d.ty \in {"UniformBuffer", "StorageBuffer",
                   "UniformBufferDynamic", "StorageBufferDynamic"} -> "Buffer"
      [] d.ty \in {"UniformTexelBuffer", "StorageTexelBuffer"} -> "BufferView"
      [] d.ty \in {"SampledImage", "StorageImage", "InputAttachment"} -> "ImageView"
      [] d.ty = "CombinedImageSampler" /\ HasImmutableSamplers(d) -> "ImageView"
      [] d.ty = "CombinedImageSampler" /\ ~HasImmutableSamplers(d) -> "ImageViewSampler"
      [] d.ty = "Sampler" /\ HasImmutableSamplers(d) -> "None"
      [] d.ty = "Sampler" /\ ~HasImmutableSamplers(d) -> "Sampler"

\* C7: new() gives every binding the slot variant stated for its descriptor
\* type; immutable samplers matter for combined image samplers and samplers
\* only.
C7_VariantOfType ==
    NewReturned =>
        \A b \in Defined(layout) :
            /\ b \in DOMAIN descriptors
            /\ descriptors[b].tag = StatedVariant(DescOf(layout, b))

\* C7 witness: new() has built an ImageView slot for a combined image sampler
\* with immutable samplers and a Buffer slot for a storage buffer whose
\* description carries immutable samplers too.
C7_Witness ==
    /\ NewReturned
    /\ Defined(layout) = {0, 1}
    /\ DescOf(layout, 0).ty = "CombinedImageSampler" /\ HasImmutableSamplers(DescOf(layout, 0))
    /\ descriptors[0].tag = "ImageView"
    /\ DescOf(layout, 1).ty = "StorageBuffer" /\ HasImmutableSamplers(DescOf(layout, 1))
    /\ descriptors[1].tag = "Buffer"

\* C11: applying the write of a call once more leaves the table as the call
\* left it: a valid write succeeds again and changes nothing, a refused write
\* is refused again with the same panic and changes nothing.
C11_Idempotent ==
    OneWriteCall =>
        LET again == SetResourcesUpdate(descriptors, writes) IN
        /\ again.descriptors = descriptors
        /\ again.panic = panic
        /\ again.failed_at = failed_at
        /\ panic # NoPanic => descriptors = before

\* C11 witness: a write of two values has changed a slot that held a set
\* element.
C11_Witness ==
    /\ OneWriteCall /\ panic = NoPanic
    /\ Count(TheWrite) = 2
    /\ SomeSet(before[TheWrite.binding_num])
    /\ descriptors # before

\* C12: a write to a binding number that is no key of the table makes update()
\* panic with the invalid-binding message, whatever its category, offset and
\* count, and no slot of the table changes.
C12_UnknownBinding ==
    (OneWriteCall /\ ~Known(before, TheWrite)) =>
        /\ panic = InvalidBindingPanic
        /\ failed_at = 1
        /\ descriptors = before

\* C12 witness: a Buffer write of one value at offset 0 to a binding number
\* past the layout has panicked on a table that holds a set Buffer element.
C12_Witness ==
    /\ OneWriteCall
    /\ TheWrite.binding_num = 2
    /\ TheWrite.elements.tag = "Buffer" /\ Offset(TheWrite) = 0 /\ Count(TheWrite) = 1
    /\ \E b \in DOMAIN before : before[b].tag = "Buffer" /\ SomeSet(before[b])
    /\ panic = InvalidBindingPanic

\* The write at which the call of update() panicked.
FailedWrite == writes[failed_at]

\* C13: every panic raised while a write is applied (invalid binding number,
\* wrong resource type, out of bounds) carries a message that tells the three
\* apart and the binding number of the write that was refused.
C13_PanicNamesBinding ==
    (UpdateCall /\ panic # NoPanic) =>
        /\ panic.msg \in { InvalidBindingPanic.msg, OutOfBoundsPanic.msg,
                           WrongTypePanic(0).msg }
        /\ panic.args = <<FailedWrite.binding_num>>

\* The lookup of a binding has returned.
BindingCall == pc = "returned" /\ op = "binding"

\* C14: binding(b) never changes the table and never panics; it returns the
\* slot of b when b is a key of the table and None when it is not.
C14_BindingLookup ==
    BindingCall =>
        /\ descriptors = before
        /\ panic = NoPanic
        /\ found = IF binding \in DOMAIN before THEN Some(before[binding]) ELSE None

\* C14 witness: the lookup of binding 2, which no layout defines, has returned
\* None on a table that holds a set element.
C14_Witness ==
    /\ BindingCall
    /\ binding = 2
    /\ found = None
    /\ \E b \in DOMAIN descriptors : SomeSet(descriptors[b])

\* C15: new(L, v) panics on its assertion and builds no table exactly when v is
\* greater than L's variable_descriptor_count; for every v up to and including
\* that maximum, 0 too, it returns a table.
C15_VariableCountContract ==
    pc # "unbuilt" =>
        /\ pc = "aborted" <=> variable_descriptor_count > layout.variable_descriptor_count
        /\ pc = "aborted" => panic = AssertPanic /\ descriptors = NoTable
        /\ pc # "aborted" => Built /\ (NewReturned => panic = NoPanic)

\* C15 witness: new() has returned a table for v equal to a maximum above 0.
C15_Witness ==
    /\ NewReturned
    /\ variable_descriptor_count = layout.variable_descriptor_count
    /\ variable_descriptor_count > 0
    /\ DOMAIN descriptors # {}

\* C16: a write to binding b leaves the slot of every other binding of the
\* table as it was.
C16_OtherBindingsUntouched ==
    OneWriteCall =>
        \A b \in DOMAIN before \ {TheWrite.binding_num} :
            b \in DOMAIN descriptors /\ descriptors[b] = before[b]

\* C16 witness: a write has changed the slot of its binding in a table whose
\* other binding has a slot of the same variant that holds a set element.
C16_Witness ==
    /\ OneWriteCall /\ panic = NoPanic
    /\ Known(before, TheWrite)
    /\ descriptors[TheWrite.binding_num] # before[TheWrite.binding_num]
    /\ \E b \in DOMAIN before \ {TheWrite.binding_num} :
          /\ before[b].tag = TheWrite.elements.tag
          /\ SomeSet(before[b])
          /\ Offset(TheWrite) + Count(TheWrite) <= ElementCount(before[b])

\* Position i (1-based) of the slot of binding b holds a set element.
IsSetAt(table, b, i) ==
    /\ b \in DOMAIN table
    /\ table[b].tag # "None"
    /\ i \in 1..Len(table[b].resources)
    /\ IsSome(table[b].resources[i])

\* Every element that is set stays set over the step.
SetStaysSet ==
    \A b \in DOMAIN descriptors : \A i \in 1..ElementCount(descriptors[b]) :
        IsSetAt(descriptors, b, i) => IsSetAt(descriptors', b, i)

\* C17: an element that a write has set is set in every later state: no step,
\* be it an update() that succeeds or one that panics, returns an element to
\* unset.
C17_SetMonotonic == [][SetStaysSet]_vars

\* C17 witness: an update() has replaced the value of a set element of a slot
\* whose other element was set and is not covered by the write.
C17_Witness ==
    /\ OneWriteCall /\ panic = NoPanic
    /\ LET b == TheWrite.binding_num IN
       \E i, j \in 1..ElementCount(before[b]) :
          /\ IsSetAt(before, b, i) /\ IsSetAt(descriptors, b, i)
          /\ before[b].resources[i] # descriptors[b].resources[i]
          /\ ~Covers(TheWrite, b, j - 1)
          /\ IsSetAt(before, b, j) /\ IsSetAt(descriptors, b, j)

\* C18: update() checks the binding number first, then the category of the
\* write against the variant of the slot, then the range: the panic of a
\* refused write is that of the first check it fails.
C18_ValidationOrder ==
    OneWriteCall =>
        panic = IF ~Known(before, TheWrite) THEN InvalidBindingPanic
                ELSE IF ~KindMatches(before, TheWrite)
                     THEN WrongTypePanic(TheWrite.binding_num)
                ELSE IF Offset(TheWrite) + Count(TheWrite)
                           > ElementCount(before[TheWrite.binding_num])
                     THEN OutOfBoundsPanic
                ELSE NoPanic

\* C18 witness: a write of another category than the slot's, whose range ends
\* past the slot, has panicked with the wrong-resource-type message.
C18_Witness ==
    /\ OneWriteCall
    /\ Known(before, TheWrite)
    /\ before[TheWrite.binding_num].tag # "None"
    /\ ~KindMatches(before, TheWrite)
    /\ Offset(TheWrite) + Count(TheWrite) > ElementCount(before[TheWrite.binding_num])
    /\ panic = WrongTypePanic(TheWrite.binding_num)

\* C19: a write of no element whose category is the slot's variant succeeds
\* and changes nothing when its offset is at most the slot's element count
\* (the count itself and offset 0 of an empty slot included) and panics with
\* the out-of-bounds message when its offset is greater; an update() with no
\* write returns and changes nothing.
C19_EmptyWrite ==
    /\ (OneWriteCall /\ Count(TheWrite) = 0 /\ Known(before, TheWrite)
           /\ KindMatches(before, TheWrite)) =>
          /\ descriptors = before
          /\ panic = IF Offset(TheWrite) <= ElementCount(before[TheWrite.binding_num])
                     THEN NoPanic ELSE OutOfBoundsPanic
    /\ (UpdateCall /\ writes = <<>>) => (descriptors = before /\ panic = NoPanic)

\* C19 witness: a write of no element at the offset that is the element count
\* of a slot with a set element has returned.
C19_Witness ==
    /\ OneWriteCall /\ Count(TheWrite) = 0
    /\ Known(before, TheWrite) /\ KindMatches(before, TheWrite)
    /\ Offset(TheWrite) = ElementCount(before[TheWrite.binding_num])
    /\ SomeSet(before[TheWrite.binding_num])
    /\ panic = NoPanic

\* An update() of two writes has returned without a panic.
TwoWritesApplied == UpdateCall /\ Len(writes) = 2 /\ panic = NoPanic

\* C20: two writes that are both accepted and go to different bindings, or to
\* ranges of one binding that share no position, commute: applied in the other
\* order to the same table they give the same table.
C20_DisjointWritesCommute ==
    (TwoWritesApplied /\ ~Overlap(writes[1], writes[2])) =>
        LET swapped == SetResourcesUpdate(before, <<writes[2], writes[1]>>) IN
        /\ swapped.panic = NoPanic
        /\ swapped.descriptors = descriptors

\* C20 witness: two writes of different values to ranges of binding 0 that
\* share no position have both been applied.
C20_Witness ==
    /\ TwoWritesApplied /\ ~Overlap(writes[1], writes[2])
    /\ writes[1].binding_num = 0 /\ writes[2].binding_num = 0
    /\ Offset(writes[2]) < Offset(writes[1])
    /\ writes[1].elements.elems # writes[2].elements.elems
    /\ \A k \in 1..2 : \A p \in 0..(MaxCount - 1) :
          Covers(writes[k], 0, p) => ElementAt(descriptors[0], p) = ValueAt(writes[k], p)

====
